---- MODULE Spec2Model ----
(***************************************************************************)
(* Model of app.py, the Streamlit fundamentals dashboard.                  *)
(*                                                                         *)
(* One behaviour is one browser session: the script runs top to bottom for *)
(* the default ticker, and every edit of the ticker field reruns it.  The  *)
(* st.cache_data memo of the five fetch functions survives the reruns.     *)
(* The provider's answers (the JSON bodies of the six endpoints) are fixed *)
(* for a session and drawn in Init; the transport outcome of each request  *)
(* and the widgets' values are drawn when the script reads them.           *)
(*                                                                         *)
(* Python values are tagged records, so that None, 0, "" and {} stay       *)
(* distinct: None, IntVal(n), FloatVal(num, den) (the exact quotient      *)
(* num/den), Inf, NegInf, NaN, Str(chars), Dict(record), List(seq) and     *)
(* Frame(rows).                                                            *)
(***************************************************************************)
EXTENDS Integers, Sequences, FiniteSets, TLC

VARIABLES
    world,            \* the provider's JSON body per endpoint (environment)
    text,             \* value of the st.text_input widget
    reruns,           \* how many times the user has edited the ticker field
    pc,               \* position of the running script
    ticker,           \* app.py:59
    cache,            \* st.cache_data memo: call key -> returned value
    requests,         \* requests.get calls issued by the current run
    profile,          \* app.py:63
    ratios,           \* app.py:64
    key_metrics,      \* app.py:65
    income_annual,    \* app.py:66
    income_quarterly, \* app.py:67
    sector_pe_list,   \* app.py:68
    display_df,       \* app.py:137
    dividend_yield,   \* app.py:146
    matched_sector,   \* app.py:158
    rendered,         \* section name -> what the page shows for it
    exception         \* the exception that ended the run, if any

locals == <<profile, ratios, key_metrics, income_annual, income_quarterly,
            sector_pe_list, display_df, dividend_yield, matched_sector>>
vars == <<world, text, reruns, pc, ticker, cache, requests, profile, ratios,
          key_metrics, income_annual, income_quarterly, sector_pe_list,
          display_df, dividend_yield, matched_sector, rendered, exception>>

---------------------------------------------------------------------------
(* Bounds *)

MaxInputLen == 2      \* longest typed ticker text
MaxReruns == 1        \* edits of the ticker field per session
MaxPeriods == 3       \* longest income-statement list the provider returns
MaxSectors == 2       \* longest sector P/E table the provider returns

---------------------------------------------------------------------------
(* Python values *)

None == [t |-> "None"]
Unbound == [t |-> "unbound"]
IntVal(n) == [t |-> "int", v |-> n]
FloatVal(n, d) == [t |-> "float", num |-> n, den |-> d]
Inf == [t |-> "inf"]
NegInf == [t |-> "-inf"]
NaN == [t |-> "nan"]
Str(s) == [t |-> "str", s |-> s]
Dict(d) == [t |-> "dict", d |-> d]
List(l) == [t |-> "list", items |-> l]
Frame(r) == [t |-> "DataFrame", rows |-> r]

EmptyDict == Dict(<<>>)

\* bool(v): None, 0, "", {} and [] are falsy
Truthy(v) ==
    CASE v.t = "None" -> FALSE
      [] v.t = "int" -> v.v # 0
      [] v.t = "float" -> v.num # 0
      [] v.t = "str" -> v.s # <<>>
      [] v.t = "dict" -> DOMAIN v.d # {}
      [] v.t = "list" -> v.items # <<>>
      [] OTHER -> TRUE

\* dict.get(k, default)
get_default(x, k, default) == IF k \in DOMAIN x.d THEN x.d[k] ELSE default

\* dict.get(k)
get(x, k) == get_default(x, k, None)

---------------------------------------------------------------------------
(* The ticker field: str.strip() and str.upper() on strings of characters *)

Whitespace == {" "}

RECURSIVE lstrip(_)
lstrip(s) == IF s # <<>> /\ Head(s) \in Whitespace THEN lstrip(Tail(s)) ELSE s

RECURSIVE rstrip(_)
rstrip(s) ==
    IF s # <<>> /\ s[Len(s)] \in Whitespace
    THEN rstrip(SubSeq(s, 1, Len(s) - 1))
    ELSE s

\* a strip that forgets the trailing blanks
strip_leading_only(s) == lstrip(s)

\* str.strip()
strip(s) == rstrip(lstrip(s))

upper_char(c) ==
    CASE c = "a" -> "A"
      [] c = "p" -> "P"
      [] c = "l" -> "L"
      [] OTHER -> c

upper(s) == [i \in 1..Len(s) |-> upper_char(s[i])]

DefaultInput == <<"A", "A", "P", "L">>

---------------------------------------------------------------------------
(* The provider: one JSON body per endpoint, fixed for a session *)

Missing == [t |-> "missing"]

\* a JSON object: the keys whose value is not Missing
Object(f) == Dict([k \in {j \in DOMAIN f : f[j] # Missing} |-> f[k]])

Technology == <<"T", "e", "c", "h">>
technology == <<"t", "e", "c", "h">>
Energy == <<"E", "n", "e", "r", "g", "y">>

ProfileObject(sector, mktCap, lastDiv, price) ==
    Object([companyName |-> Str(<<"A", "c", "m", "e">>), sector |-> sector,
            industry |-> Str(<<"S", "o", "f", "t">>), mktCap |-> mktCap,
            lastDiv |-> lastDiv, price |-> price])

RatiosFields ==
    {"priceEarningsRatioTTM", "priceEarningsToGrowthRatioTTM", "returnOnEquityTTM",
     "currentRatioTTM", "debtEquityRatioTTM", "priceToBookRatioTTM",
     "returnOnAssetsTTM", "grossProfitMarginTTM", "operatingProfitMarginTTM",
     "netProfitMarginTTM", "interestCoverageTTM"}

\* a ratios-ttm object with every field in `present` set to value v
RatiosObject(present, v) == Dict([k \in present |-> IntVal(v)])

KeyMetricsObject(fcf, eps) == Object([freeCashFlowTTM |-> fcf, epsTTM |-> eps])

\* a date string "YYYY-MM-DD" is its three numbers
DateStr(y, m, d) == Str(<<y, m, d>>)

IncomeObject(y, m, revenue, netIncome) ==
    Dict([date |-> DateStr(y, m, 28), revenue |-> IntVal(revenue),
          netIncome |-> IntVal(netIncome)])

SectorObject(sector, pe) == Object([sector |-> sector, pe |-> pe])

\* all sequences over S of length 0..n
SeqsUpTo(S, n) == UNION {[1..k -> S] : k \in 0..n}

\* the spec's worked example: 2021:(100,10), 2022:(120,15), 2023:(90,5)
ExampleIncome ==
    <<IncomeObject(2021, 12, 100, 10), IncomeObject(2022, 12, 120, 15),
      IncomeObject(2023, 12, 90, 5)>>

QuarterlyIncome ==
    <<IncomeObject(2023, 6, 30, 3), IncomeObject(2023, 3, 25, 2)>>

DefaultWorld ==
    [profile |-> List(<<ProfileObject(Str(Technology), IntVal(1000), IntVal(5),
                                      IntVal(100))>>),
     ratios |-> List(<<RatiosObject(RatiosFields, 25)>>),
     key_metrics |-> List(<<KeyMetricsObject(IntVal(70), IntVal(6))>>),
     income_annual |-> List(ExampleIncome),
     income_quarterly |-> List(QuarterlyIncome),
     sector_pe |-> List(<<SectorObject(Str(Energy), IntVal(12)),
                          SectorObject(Str(Technology), IntVal(30))>>)]

\* DefaultWorld and the worlds that differ from it in one endpoint's body
Slices(P, R, K, A, Q, S) ==
    {DefaultWorld}
    \cup {[DefaultWorld EXCEPT !.profile = List(b)] : b \in P}
    \cup {[DefaultWorld EXCEPT !.ratios = List(b)] : b \in R}
    \cup {[DefaultWorld EXCEPT !.key_metrics = List(b)] : b \in K}
    \cup {[DefaultWorld EXCEPT !.income_annual = List(b)] : b \in A}
    \cup {[DefaultWorld EXCEPT !.income_quarterly = List(b)] : b \in Q}
    \cup {[DefaultWorld EXCEPT !.sector_pe = List(b)] : b \in S}

---------------------------------------------------------------------------
(* Fetch helpers.  A call yields a set of possible results: Return(v) or   *)
(* Raises(type).                                                           *)

Return(v) == [ok |-> TRUE, value |-> v]
Raises(type) == [ok |-> FALSE, type |-> type]

\* requests.get(url); r.raise_for_status(); r.json(): the connection may
\* fail, the status may be an error, the body may not be JSON; otherwise the
\* decoded body
http_get_json(body) ==
    {Raises("ConnectionError"), Raises("HTTPError"), Raises("JSONDecodeError"),
     Return(body)}

\* data[0] if data else {}
first_or_empty(data) ==
    {Return(IF Truthy(data) THEN data.items[1] ELSE EmptyDict)}

\* an exception of the request skips the rest of the function
fetch_profile_fn(t) ==
    UNION {IF r.ok THEN first_or_empty(r.value) ELSE {r} : r \in http_get_json(world.profile)}

fetch_ratios_ttm_fn(t) ==
    UNION {IF r.ok THEN first_or_empty(r.value) ELSE {r} : r \in http_get_json(world.ratios)}

fetch_key_metrics_fn(t) ==
    UNION {IF r.ok THEN first_or_empty(r.value) ELSE {r} :
              r \in http_get_json(world.key_metrics)}

\* pd.DataFrame(data): one row per record, labelled 0..n-1
DataFrame(data) ==
    Frame([i \in 1..Len(data.items) |->
              [index |-> i - 1, date |-> get(data.items[i], "date"),
               revenue |-> get(data.items[i], "revenue"),
               netIncome |-> get(data.items[i], "netIncome")]])

Timestamp(y, m, d) == [t |-> "Timestamp", year |-> y, month |-> m, day |-> d]

\* pd.to_datetime on a "YYYY-MM-DD" string
to_datetime(v) == Timestamp(v.s[1], v.s[2], v.s[3])

\* a <= b on Timestamps
ts_le(a, b) ==
    \/ a.year < b.year
    \/ a.year = b.year /\ a.month < b.month
    \/ a.year = b.year /\ a.month = b.month /\ a.day <= b.day

Permutations_of(n) == {p \in [1..n -> 1..n] : \A i, j \in 1..n : i # j => p[i] # p[j]}

\* df.sort_values("date"): ascending; the default sort (quicksort) is not
\* stable, so rows with equal dates come in any order
sort_values(df) ==
    LET n == Len(df.rows)
    IN {Frame([i \in 1..n |-> df.rows[p[i]]]) :
           p \in {q \in Permutations_of(n) :
                    \A i \in 1..n - 1 : ts_le(df.rows[q[i]].date, df.rows[q[i + 1]].date)}}

\* lines 42-44: an empty list gives a frame without columns, so df["date"]
\* raises KeyError
frame_sorted_by_date(data) ==
    LET df == DataFrame(data)
    IN IF df.rows = <<>>
       THEN {Raises("KeyError")}
       ELSE {Return(f) :
                f \in sort_values(Frame([i \in 1..Len(df.rows) |->
                         [df.rows[i] EXCEPT !.date = to_datetime(@)]]))}

\* 'quarter' if period == 'quarterly' else 'annual'
provider_period(period) == IF period = "quarterly" THEN "quarter" ELSE "annual"

fetch_income_statement_fn(t, period) ==
    UNION {IF r.ok THEN frame_sorted_by_date(r.value) ELSE {r} :
              r \in http_get_json(IF provider_period(period) = "quarter"
                                  THEN world.income_quarterly
                                  ELSE world.income_annual)}

fetch_sector_pe_snapshot_fn == http_get_json(world.sector_pe)

NoArg == <<>>

\* @st.cache_data: a memoized key returns the stored value without running
\* the function; otherwise the function runs, issues its request, and a
\* returned value (never an exception) is stored.  Each result carries the
\* cache and the request log it leaves behind.
cache_data(key, request, results) ==
    IF key \in DOMAIN cache
    THEN {[res |-> Return(cache[key]), cache |-> cache, requests |-> requests]}
    ELSE {[res |-> r,
           cache |-> IF r.ok THEN cache @@ (key :> r.value) ELSE cache,
           requests |-> requests \cup {request}] : r \in results}

---------------------------------------------------------------------------
(* Formatting and tables *)

Abs(n) == IF n < 0 THEN -n ELSE n

\* the integer nearest to a / b, for b # 0
RoundDiv(a, b) ==
    LET q == (2 * Abs(a) + Abs(b)) \div (2 * Abs(b))
    IN IF (a < 0) = (b < 0) THEN q ELSE -q

\* "{:.2f}".format(v) for a number: the text, as hundredths; inf and nan
\* print as themselves
format_2f(v) ==
    CASE v.t = "int" -> [t |-> "fixed2", hundredths |-> v.v * 100]
      [] v.t = "float" -> [t |-> "fixed2", hundredths |-> RoundDiv(v.num * 100, v.den)]
      [] OTHER -> [t |-> "text", s |-> v.t]

\* pd.DataFrame.from_dict(d, orient="index", columns=["Value"]).style.format("{:.2f}")
\* shown by st.table: a column of None only keeps dtype object and
\* "{:.2f}".format(None) raises TypeError; next to a number, None becomes NaN
styled_table(d) ==
    IF \A k \in DOMAIN d : d[k] = None
    THEN Raises("TypeError")
    ELSE Return([k \in DOMAIN d |-> format_2f(IF d[k] = None THEN NaN ELSE d[k])])

Dash == Str(<<"-">>)

\* f"${mktcap:,}" if mktcap else "-"
formatted_cap(mktcap) ==
    IF Truthy(mktcap) THEN [t |-> "dollars", amount |-> mktcap.v] ELSE Dash

key_data ==
    [k \in {"PE Ratio", "PEG Ratio", "ROE", "Current Ratio", "Debt/Equity"} |->
        get(ratios,
            CASE k = "PE Ratio" -> "priceEarningsRatioTTM"
              [] k = "PEG Ratio" -> "priceEarningsToGrowthRatioTTM"
              [] k = "ROE" -> "returnOnEquityTTM"
              [] k = "Current Ratio" -> "currentRatioTTM"
              [] k = "Debt/Equity" -> "debtEquityRatioTTM")]

extra_data ==
    [k \in {"P/B Ratio", "ROA", "Gross Margin", "Operating Margin", "Net Margin",
            "Interest Coverage"} |->
        get(ratios,
            CASE k = "P/B Ratio" -> "priceToBookRatioTTM"
              [] k = "ROA" -> "returnOnAssetsTTM"
              [] k = "Gross Margin" -> "grossProfitMarginTTM"
              [] k = "Operating Margin" -> "operatingProfitMarginTTM"
              [] k = "Net Margin" -> "netProfitMarginTTM"
              [] k = "Interest Coverage" -> "interestCoverageTTM")]

\* selected_df[["date", "revenue", "netIncome"]].melt(id_vars="date", ...)
chart_df(selected_df) ==
    LET n == Len(selected_df.rows)
    IN [i \in 1..2 * n |->
           IF i <= n
           THEN [date |-> selected_df.rows[i].date, Metric |-> "revenue",
                 Amount |-> selected_df.rows[i].revenue]
           ELSE [date |-> selected_df.rows[i - n].date, Metric |-> "netIncome",
                 Amount |-> selected_df.rows[i - n].netIncome]]

---------------------------------------------------------------------------
(* Year-over-year growth *)

\* one entry of Series.pct_change() * 100 on integers: cur / prev - 1, where
\* x / 0 is inf or -inf and 0 / 0 is NaN
pct_change_100(prev, cur) ==
    IF prev.v # 0 THEN FloatVal((cur.v - prev.v) * 100, prev.v)
    ELSE IF cur.v > 0 THEN Inf
    ELSE IF cur.v < 0 THEN NegInf
    ELSE NaN

\* lines 133-136: the first row has no previous row, so its changes are NaN
yoy_df(income) ==
    [i \in 1..Len(income.rows) |->
        [index |-> income.rows[i].index,
         Year |-> income.rows[i].date.year,
         RevenueYoY |-> IF i = 1 THEN NaN
                        ELSE pct_change_100(income.rows[i - 1].revenue,
                                            income.rows[i].revenue),
         NetIncomeYoY |-> IF i = 1 THEN NaN
                          ELSE pct_change_100(income.rows[i - 1].netIncome,
                                              income.rows[i].netIncome)]]

has_na(row) == row.RevenueYoY = NaN \/ row.NetIncomeYoY = NaN

\* DataFrame.dropna(): drop every row that holds a NaN
dropna(rows) == SelectSeq(rows, LAMBDA r : ~has_na(r))

\* display_df.set_index("Year").T with style.format("{:.2f}%")
yoy_table(rows) ==
    [i \in 1..Len(rows) |->
        [Year |-> rows[i].Year,
         RevenueYoY |-> format_2f(rows[i].RevenueYoY),
         NetIncomeYoY |-> format_2f(rows[i].NetIncomeYoY)]]

---------------------------------------------------------------------------
(* Dividend yield and sector matching *)

\* a / b * 100 on Python numbers; None as an operand raises TypeError
div_times_100(a, b) ==
    IF a.t = "None" \/ b.t = "None"
    THEN Raises("TypeError")
    ELSE Return(FloatVal(a.v * 100, b.v))

\* profile.get("lastDiv") / profile.get("price") * 100 if profile.get("price") else None
dividend_yield_of(p) ==
    IF Truthy(get(p, "price"))
    THEN div_times_100(get(p, "lastDiv"), get(p, "price"))
    ELSE Return(None)

\* next((s for s in sector_pe_list if s.get("sector") == sector_name), None)
RECURSIVE next_match(_, _)
next_match(items, sector_name) ==
    IF items = <<>> THEN None
    ELSE IF get(Head(items), "sector") = sector_name THEN Head(items)
    ELSE next_match(Tail(items), sector_name)

---------------------------------------------------------------------------
(* The session *)

Chars == {" ", "a"}

\* what the user can type into the ticker field
RawInputs == SeqsUpTo(Chars, MaxInputLen)

NoException == [type |-> "none", at |-> "none"]

NoOutput == [section \in {} |-> None]

Terminal == {"done", "stopped", "raised"}

\* the page is opened: nothing is memoized, and the first run of the script
\* reads the field's default value
SessionStart ==
    /\ text = DefaultInput
    /\ reruns = 0
    /\ cache = [key \in {} |-> None]
    /\ pc = "start"
    /\ ticker = Unbound
    /\ requests = {}
    /\ profile = Unbound
    /\ ratios = Unbound
    /\ key_metrics = Unbound
    /\ income_annual = Unbound
    /\ income_quarterly = Unbound
    /\ sector_pe_list = Unbound
    /\ display_df = Unbound
    /\ dividend_yield = Unbound
    /\ matched_sector = Unbound
    /\ rendered = NoOutput
    /\ exception = NoException

BaseWorlds ==
    Slices(
      {<<>>,
       <<ProfileObject(Str(technology), IntVal(0), Missing, IntVal(100))>>,
       <<ProfileObject(Missing, Missing, IntVal(0), IntVal(0))>>},
      {<<>>},
      {<<>>},
      {<<>>, <<IncomeObject(2022, 12, 120, 15)>>},
      {<<>>},
      {<<>>})

Init == world \in BaseWorlds /\ SessionStart

\* an uncaught exception ends the run
Raise(type) == pc' = "raised" /\ exception' = [type |-> type, at |-> pc]

Goto(next) == pc' = next /\ exception' = exception

Show(section, content) == rendered' = rendered @@ (section :> content)

\* the user edits the ticker field after a run: Streamlit reruns the script
\* from the top with fresh variables and a cleared page; the memo is kept
Rerun ==
    /\ pc \in Terminal
    /\ reruns < MaxReruns
    /\ reruns' = reruns + 1
    /\ text' \in RawInputs
    /\ pc' = "start"
    /\ ticker' = Unbound
    /\ requests' = {}
    /\ profile' = Unbound
    /\ ratios' = Unbound
    /\ key_metrics' = Unbound
    /\ income_annual' = Unbound
    /\ income_quarterly' = Unbound
    /\ sector_pe_list' = Unbound
    /\ display_df' = Unbound
    /\ dividend_yield' = Unbound
    /\ matched_sector' = Unbound
    /\ rendered' = NoOutput
    /\ exception' = NoException
    /\ UNCHANGED <<world, cache>>

\* lines 59-61
read_ticker ==
    /\ pc = "start"
    /\ ticker' = Str(upper(strip(text)))
    /\ Goto(IF Truthy(ticker') THEN "fetch_profile" ELSE "done")
    /\ UNCHANGED <<world, text, reruns, cache, requests, locals, rendered>>

\* line 63
fetch_profile ==
    /\ pc = "fetch_profile"
    /\ \E c \in cache_data(<<"fetch_profile", ticker.s, "">>,
                           [path |-> "profile", ticker |-> ticker.s],
                           fetch_profile_fn(ticker)) :
          /\ cache' = c.cache
          /\ requests' = c.requests
          /\ IF c.res.ok
             THEN profile' = c.res.value /\ Goto("fetch_ratios_ttm")
             ELSE Raise(c.res.type) /\ UNCHANGED profile
    /\ UNCHANGED <<world, text, reruns, ticker, ratios, key_metrics, income_annual,
                   income_quarterly, sector_pe_list, display_df, dividend_yield,
                   matched_sector, rendered>>

\* line 64
fetch_ratios_ttm ==
    /\ pc = "fetch_ratios_ttm"
    /\ \E c \in cache_data(<<"fetch_ratios_ttm", ticker.s, "">>,
                           [path |-> "ratios-ttm", ticker |-> ticker.s],
                           fetch_ratios_ttm_fn(ticker)) :
          /\ cache' = c.cache
          /\ requests' = c.requests
          /\ IF c.res.ok
             THEN ratios' = c.res.value /\ Goto("fetch_key_metrics")
             ELSE Raise(c.res.type) /\ UNCHANGED ratios
    /\ UNCHANGED <<world, text, reruns, ticker, profile, key_metrics, income_annual,
                   income_quarterly, sector_pe_list, display_df, dividend_yield,
                   matched_sector, rendered>>

\* line 65
fetch_key_metrics ==
    /\ pc = "fetch_key_metrics"
    /\ \E c \in cache_data(<<"fetch_key_metrics", ticker.s, "">>,
                           [path |-> "key-metrics-ttm", ticker |-> ticker.s],
                           fetch_key_metrics_fn(ticker)) :
          /\ cache' = c.cache
          /\ requests' = c.requests
          /\ IF c.res.ok
             THEN key_metrics' = c.res.value /\ Goto("fetch_income_annual")
             ELSE Raise(c.res.type) /\ UNCHANGED key_metrics
    /\ UNCHANGED <<world, text, reruns, ticker, profile, ratios, income_annual,
                   income_quarterly, sector_pe_list, display_df, dividend_yield,
                   matched_sector, rendered>>

\* line 66
fetch_income_annual ==
    /\ pc = "fetch_income_annual"
    /\ \E c \in cache_data(<<"fetch_income_statement", ticker.s, "annual">>,
                           [path |-> "income-statement", ticker |-> ticker.s,
                            period |-> provider_period("annual")],
                           fetch_income_statement_fn(ticker, "annual")) :
          /\ cache' = c.cache
          /\ requests' = c.requests
          /\ IF c.res.ok
             THEN income_annual' = c.res.value /\ Goto("fetch_income_quarterly")
             ELSE Raise(c.res.type) /\ UNCHANGED income_annual
    /\ UNCHANGED <<world, text, reruns, ticker, profile, ratios, key_metrics,
                   income_quarterly, sector_pe_list, display_df, dividend_yield,
                   matched_sector, rendered>>

\* line 67
fetch_income_quarterly ==
    /\ pc = "fetch_income_quarterly"
    /\ \E c \in cache_data(<<"fetch_income_statement", ticker.s, "quarterly">>,
                           [path |-> "income-statement", ticker |-> ticker.s,
                            period |-> provider_period("quarterly")],
                           fetch_income_statement_fn(ticker, "quarterly")) :
          /\ cache' = c.cache
          /\ requests' = c.requests
          /\ IF c.res.ok
             THEN income_quarterly' = c.res.value /\ Goto("fetch_sector_pe")
             ELSE Raise(c.res.type) /\ UNCHANGED income_quarterly
    /\ UNCHANGED <<world, text, reruns, ticker, profile, ratios, key_metrics,
                   income_annual, sector_pe_list, display_df, dividend_yield,
                   matched_sector, rendered>>

\* line 68: called without a date, so the key holds no ticker
fetch_sector_pe_snapshot ==
    /\ pc = "fetch_sector_pe"
    /\ \E c \in cache_data(<<"fetch_sector_pe_snapshot", NoArg, "">>,
                           [path |-> "sector-pe-snapshot"],
                           fetch_sector_pe_snapshot_fn) :
          /\ cache' = c.cache
          /\ requests' = c.requests
          /\ IF c.res.ok
             THEN sector_pe_list' = c.res.value /\ Goto("check_profile")
             ELSE Raise(c.res.type) /\ UNCHANGED sector_pe_list
    /\ UNCHANGED <<world, text, reruns, ticker, profile, ratios, key_metrics,
                   income_annual, income_quarterly, display_df, dividend_yield,
                   matched_sector, rendered>>

\* lines 70-72: an empty profile shows the error and stops the script
check_profile ==
    /\ pc = "check_profile"
    /\ IF ~Truthy(profile)
       THEN Show("error", [message |-> "No data found for ticker", ticker |-> ticker])
            /\ Goto("stopped")
       ELSE UNCHANGED rendered /\ Goto("header")
    /\ UNCHANGED <<world, text, reruns, ticker, cache, requests, locals>>

\* lines 75-81
render_header ==
    /\ pc = "header"
    /\ Show("header",
            [companyName |-> get(profile, "companyName"),
             ticker |-> ticker,
             Sector |-> get_default(profile, "sector", Dash),
             Industry |-> get_default(profile, "industry", Dash),
             MarketCap |-> formatted_cap(get(profile, "mktCap"))])
    /\ Goto("key_ratios")
    /\ UNCHANGED <<world, text, reruns, ticker, cache, requests, locals>>

\* lines 84-92
render_key_ratios ==
    /\ pc = "key_ratios"
    /\ LET table == styled_table(key_data)
       IN IF table.ok
          THEN Show("key_ratios", table.value) /\ Goto("extra")
          ELSE Raise(table.type) /\ UNCHANGED rendered
    /\ UNCHANGED <<world, text, reruns, ticker, cache, requests, locals>>

\* lines 95-104
render_extra ==
    /\ pc = "extra"
    /\ LET table == styled_table(extra_data)
       IN IF table.ok
          THEN Show("extra", table.value) /\ Goto("chart")
          ELSE Raise(table.type) /\ UNCHANGED rendered
    /\ UNCHANGED <<world, text, reruns, ticker, cache, requests, locals>>

\* lines 107-129: the radio's value picks the frame that is charted
render_chart ==
    /\ pc = "chart"
    /\ \E interval \in {"Annual", "Quarterly"} :
          LET selected_df == IF interval = "Annual" THEN income_annual
                             ELSE income_quarterly
          IN IF selected_df.rows # <<>>
             THEN Show("chart", [interval |-> interval, bars |-> chart_df(selected_df)])
             ELSE Show("warning", [message |-> "No income statement data available."])
    /\ Goto("yoy")
    /\ UNCHANGED <<world, text, reruns, ticker, cache, requests, locals>>

\* lines 132-140
render_yoy ==
    /\ pc = "yoy"
    /\ IF income_annual.rows # <<>>
       THEN /\ display_df' = Frame(dropna(yoy_df(income_annual)))
            /\ Show("yoy", yoy_table(display_df'.rows))
       ELSE UNCHANGED <<display_df, rendered>>
    /\ Goto("earnings")
    /\ UNCHANGED <<world, text, reruns, ticker, cache, requests, profile, ratios,
                   key_metrics, income_annual, income_quarterly, sector_pe_list,
                   dividend_yield, matched_sector>>

\* lines 143-153
render_earnings ==
    /\ pc = "earnings"
    /\ LET fcf == get(key_metrics, "freeCashFlowTTM")
           eps == get(key_metrics, "epsTTM")
           dy == dividend_yield_of(profile)
       IN IF ~dy.ok
          THEN Raise(dy.type) /\ UNCHANGED <<dividend_yield, rendered>>
          ELSE /\ dividend_yield' = dy.value
               /\ LET table == styled_table(
                                 [k \in {"EPS (TTM)", "Free Cash Flow (TTM)",
                                         "Dividend Yield"} |->
                                     CASE k = "EPS (TTM)" -> eps
                                       [] k = "Free Cash Flow (TTM)" -> fcf
                                       [] k = "Dividend Yield" -> dy.value])
                  IN IF table.ok
                     THEN Show("earnings", table.value) /\ Goto("sector")
                     ELSE Raise(table.type) /\ UNCHANGED rendered
    /\ UNCHANGED <<world, text, reruns, ticker, cache, requests, profile, ratios,
                   key_metrics, income_annual, income_quarterly, sector_pe_list,
                   display_df, matched_sector>>

\* lines 156-170
render_sector ==
    /\ pc = "sector"
    /\ LET sector_name == get(profile, "sector")
           m == next_match(sector_pe_list.items, sector_name)
       IN /\ matched_sector' = m
          /\ IF Truthy(m)
             THEN LET table == styled_table(
                                 [k \in {"Company P/E", "Sector Avg P/E"} |->
                                     IF k = "Company P/E"
                                     THEN get(ratios, "priceEarningsRatioTTM")
                                     ELSE get(m, "pe")])
                  IN IF table.ok
                     THEN Show("sector", [sector_name |-> sector_name,
                                          table |-> table.value])
                          /\ Goto("done")
                     ELSE Raise(table.type) /\ UNCHANGED rendered
             ELSE Show("info", [message |-> "No sector P/E data found for sector",
                                sector_name |-> sector_name])
                  /\ Goto("done")
    /\ UNCHANGED <<world, text, reruns, ticker, cache, requests, profile, ratios,
                   key_metrics, income_annual, income_quarterly, sector_pe_list,
                   display_df, dividend_yield>>

Next ==
    \/ Rerun
    \/ read_ticker
    \/ fetch_profile
    \/ fetch_ratios_ttm
    \/ fetch_key_metrics
    \/ fetch_income_annual
    \/ fetch_income_quarterly
    \/ fetch_sector_pe_snapshot
    \/ check_profile
    \/ render_header
    \/ render_key_ratios
    \/ render_extra
    \/ render_chart
    \/ render_yoy
    \/ render_earnings
    \/ render_sector

Spec == Init /\ [][Next]_vars

---------------------------------------------------------------------------
(* The same session over a wide range of provider data *)

ProfileObjects ==
    {ProfileObject(sector, mktCap, lastDiv, price) :
        sector \in {Missing, Str(Technology), Str(technology)},
        mktCap \in {Missing, IntVal(0), IntVal(1000)},
        lastDiv \in {Missing, IntVal(0), IntVal(5)},
        price \in {Missing, IntVal(0), IntVal(100), IntVal(-100)}}

RatiosObjects ==
    {RatiosObject(present, v) :
        present \in {{}, {"priceEarningsRatioTTM"},
                     RatiosFields \ {"priceEarningsRatioTTM"}, RatiosFields},
        v \in {0, 25}}

KeyMetricsObjects ==
    {KeyMetricsObject(fcf, eps) :
        fcf \in {Missing, IntVal(0), IntVal(70)},
        eps \in {Missing, IntVal(0), IntVal(6)}}

IncomeObjects ==
    {IncomeObject(2021, 12, 100, 10), IncomeObject(2022, 12, 120, 15),
     IncomeObject(2023, 12, 90, 5), IncomeObject(2021, 12, 0, -10),
     IncomeObject(2022, 12, 0, 0)}

SectorObjects ==
    {SectorObject(Str(Technology), IntVal(30)), SectorObject(Str(technology), IntVal(20)),
     SectorObject(Str(Energy), Missing), SectorObject(Missing, IntVal(9))}

DataWorlds ==
    Slices(SeqsUpTo(ProfileObjects, 1),
           SeqsUpTo(RatiosObjects, 1),
           SeqsUpTo(KeyMetricsObjects, 1),
           SeqsUpTo(IncomeObjects, MaxPeriods),
           {<<>>, <<IncomeObject(2023, 6, 30, 3), IncomeObject(2023, 6, 30, 3)>>},
           SeqsUpTo(SectorObjects, MaxSectors))

InitData == world \in DataWorlds /\ SessionStart

SpecData == InitData /\ [][Next]_vars

---------------------------------------------------------------------------
(* Properties *)

TransportErrors == {"ConnectionError", "HTTPError", "JSONDecodeError"}

Shown(section) == section \in DOMAIN rendered

\* C1: no fetch lets a transport failure (network error, error status,
\* malformed body) out: a run never ends with such an exception raised at a
\* fetch step.
C1_FetchesFailSoft ==
    ~(pc = "raised" /\ exception.type \in TransportErrors)

\* C2: when a run has ended without an exception, every section whose own
\* data arrived is on the page; in particular the income chart and the YoY
\* table are shown whenever the annual income statement was fetched, also
\* when the profile came back empty.
C2_AvailableSectionsRendered ==
    (pc \in {"done", "stopped"} /\ income_annual # Unbound)
        => /\ Shown("chart")
           /\ Shown("yoy")
           /\ (Truthy(ratios) => Shown("key_ratios"))

\* the position in the sorted annual frame of the row labelled idx
PositionOf(idx) == CHOOSE i \in 1..Len(income_annual.rows) : income_annual.rows[i].index = idx

\* "unavailable" in the growth table is a NaN cell
GrowthCellAsClaimed(cell, prev) ==
    IF prev.v = 0 THEN cell = NaN ELSE cell.t = "float"

\* C3: an annual history of N >= 2 periods gives exactly N-1 growth entries,
\* one for each period 2..N, and an entry's revenue (net-income) growth is
\* unavailable exactly when the prior revenue (net income) is zero: neither
\* infinite nor dropped together with the other metric.
C3_YoYOneEntryPerPeriod ==
    (Shown("yoy") /\ Len(income_annual.rows) >= 2)
        => /\ Len(display_df.rows) = Len(income_annual.rows) - 1
           /\ \A i \in 2..Len(income_annual.rows) :
                 \E k \in 1..Len(display_df.rows) :
                    /\ display_df.rows[k].index = income_annual.rows[i].index
                    /\ GrowthCellAsClaimed(display_df.rows[k].RevenueYoY,
                                           income_annual.rows[i - 1].revenue)
                    /\ GrowthCellAsClaimed(display_df.rows[k].NetIncomeYoY,
                                           income_annual.rows[i - 1].netIncome)

\* (cur - prev) / |prev| * 100 to two decimals, as the page would print it
GrowthOverAbs(prev, cur) ==
    [t |-> "fixed2", hundredths |-> RoundDiv((cur.v - prev.v) * 10000, Abs(prev.v))]

\* C4: every growth figure shown for a period whose prior value is non-zero
\* is (value[i] - value[i-1]) / |value[i-1]| * 100, also for a negative prior
\* value.
C4_GrowthOverAbsolutePrior ==
    Shown("yoy") =>
        \A k \in 1..Len(display_df.rows) :
            LET i == PositionOf(display_df.rows[k].index)
                prev == income_annual.rows[i - 1]
                cur == income_annual.rows[i]
            IN /\ prev.revenue.v # 0 =>
                      rendered["yoy"][k].RevenueYoY = GrowthOverAbs(prev.revenue, cur.revenue)
               /\ prev.netIncome.v # 0 =>
                      rendered["yoy"][k].NetIncomeYoY =
                          GrowthOverAbs(prev.netIncome, cur.netIncome)

\* The worked example 2021:(100,10), 2022:(120,15), 2023:(90,5) is shown as
\* 2022:(+20.00, +50.00), 2023:(-25.00, -66.67): all its prior values are
\* positive, where dividing by the prior value and by its absolute value agree.
WorkedExampleTable ==
    (Shown("yoy") /\ world.income_annual = List(ExampleIncome)) =>
        rendered["yoy"] =
            <<[Year |-> 2022,
               RevenueYoY |-> [t |-> "fixed2", hundredths |-> 2000],
               NetIncomeYoY |-> [t |-> "fixed2", hundredths |-> 5000]],
              [Year |-> 2023,
               RevenueYoY |-> [t |-> "fixed2", hundredths |-> -2500],
               NetIncomeYoY |-> [t |-> "fixed2", hundredths |-> -6667]]>>

\* the division of line 146 raised
DividendRaised == pc = "raised" /\ exception.at = "earnings" /\ dividend_yield = Unbound

\* C5: the dividend yield never raises; it is None (unavailable) when the
\* dividend or the price is missing or the price is <= 0, and dividend /
\* price * 100 otherwise.
C5_DividendYield ==
    /\ ~DividendRaised
    /\ dividend_yield # Unbound =>
          LET lastDiv == get(profile, "lastDiv")
              price == get(profile, "price")
          IN IF lastDiv = None \/ price = None \/ price.v <= 0
             THEN dividend_yield = None
             ELSE /\ dividend_yield.t = "float"
                  /\ dividend_yield.num * price.v = lastDiv.v * 100 * dividend_yield.den

lower_char(c) ==
    CASE c = "T" -> "t"
      [] c = "E" -> "e"
      [] OTHER -> c

SameIgnoringCase(a, b) ==
    /\ a.t = "str"
    /\ b.t = "str"
    /\ Len(a.s) = Len(b.s)
    /\ \A i \in 1..Len(a.s) : lower_char(a.s[i]) = lower_char(b.s[i])

\* the first entry whose sector label equals sector_name ignoring case
RECURSIVE FirstIgnoringCase(_, _)
FirstIgnoringCase(items, sector_name) ==
    IF items = <<>> THEN None
    ELSE IF SameIgnoringCase(get(Head(items), "sector"), sector_name) THEN Head(items)
    ELSE FirstIgnoringCase(Tail(items), sector_name)

\* C6: the matched sector entry is the first entry of the table whose label
\* equals the company's sector ignoring case, and None when there is no such
\* entry or the company has no sector.
C6_SectorMatchIgnoresCase ==
    matched_sector # Unbound =>
        matched_sector = FirstIgnoringCase(sector_pe_list.items, get(profile, "sector"))

IsBlank(s) == \A i \in 1..Len(s) : s[i] = " "

\* s without its leading and trailing blanks
TrimmedOf(s) ==
    IF IsBlank(s) THEN <<>>
    ELSE LET first == CHOOSE i \in 1..Len(s) : s[i] # " " /\ IsBlank(SubSeq(s, 1, i - 1))
             last == CHOOSE j \in 1..Len(s) : s[j] # " " /\ IsBlank(SubSeq(s, j + 1, Len(s)))
         IN SubSeq(s, first, last)

UpperCaseOf == [c \in Chars \cup {"A", "P", "L"} |-> IF c = "a" THEN "A" ELSE c]

\* C7: a run whose trimmed input is empty issues no request, and every
\* request that names a ticker names the trimmed, upper-cased input.
C7_TrimmedUpperTickerOrNoFetch ==
    LET trimmed == TrimmedOf(text)
        wanted == [i \in 1..Len(trimmed) |-> UpperCaseOf[trimmed[i]]]
    IN /\ trimmed = <<>> => requests = {}
       /\ \A r \in requests : "ticker" \in DOMAIN r => r.ticker = wanted

\* a run for the input " a" has issued all six requests for ticker "A"
C7_Witness ==
    /\ text = <<" ", "a">>
    /\ Cardinality(requests) = 6
    /\ \E r \in requests : "ticker" \in DOMAIN r /\ r.ticker = <<"A">>

StrictlyIncreasingDates(df) ==
    \A i \in 1..Len(df.rows) - 1 :
        ts_le(df.rows[i].date, df.rows[i + 1].date) /\ df.rows[i].date # df.rows[i + 1].date

\* C8: the income histories the script works on have strictly increasing
\* dates: no period appears twice.
C8_IncomeDatesStrictlyIncrease ==
    /\ income_annual # Unbound => StrictlyIncreasingDates(income_annual)
    /\ income_quarterly # Unbound => StrictlyIncreasingDates(income_quarterly)

\* C9: an income list of length 0 or 1 makes neither the fetch nor the YoY
\* computation raise, and the YoY series it yields is empty.
C9_ShortHistoryGivesEmptyYoY ==
    /\ ~(pc = "raised" /\ exception.type = "KeyError")
    /\ (pc \in {"earnings", "sector", "done"} /\ ticker # Str(<<>>)
        /\ Len(world.income_annual.items) <= 1)
           => Shown("yoy") /\ rendered["yoy"] = <<>>

\* C10: a metric whose field is missing from the fetched record is shown as
\* unavailable and never as zero, and a field present with value zero is
\* shown as zero, not as unavailable.
C10_MissingIsNotZero ==
    /\ Shown("header") =>
          LET mktCap == get(profile, "mktCap")
          IN IF mktCap = None
             THEN rendered["header"].MarketCap = Dash
             ELSE rendered["header"].MarketCap = [t |-> "dollars", amount |-> mktCap.v]
    /\ Shown("key_ratios") =>
          \A k \in DOMAIN key_data :
              IF key_data[k] = None
              THEN rendered["key_ratios"][k] = format_2f(NaN)
              ELSE rendered["key_ratios"][k] = format_2f(key_data[k])

====
